---- MODULE Spec2Model ----
(***************************************************************************)
(* GenericKey<keySize> of src/indexkey.h: a fixed buffer of keySize * 8    *)
(* bytes into which integers are packed sign-flipped and big-endian, so    *)
(* that memcmp() of two buffers orders them like the packed tuples.        *)
(*                                                                         *)
(* An integer of w bytes is a word: the sequence of its w base-256 digits, *)
(* most significant first (its two's complement bit pattern).  The bytes   *)
(* such an object has in memory depend on the host's byte order, which is  *)
(* the variable hostBigEndian; htobe16/32/64 and be16/32/64toh swap the    *)
(* digits on a little-endian host and are the identity on a big-endian one.*)
(*                                                                         *)
(* GetInteger and GetUnsignedInteger read through data + offset cast to    *)
(* IntType *.  The read is modelled as the load of the w bytes at that     *)
(* address, which is what it is on the hosts that load integers from any   *)
(* address (x86-64, AArch64, POWER, s390x); a host that traps on an        *)
(* unaligned load is outside the model.  unsigned long, the type of        *)
(* std::stoul, has 8 bytes (LP64).                                         *)
(*                                                                         *)
(* Two keys, a and b, of one instantiation are in play.  Under Spec the    *)
(* caller owns a layout (schema) of one, two or three fields, packs values *)
(* into the fields of both keys and then makes one call that reads them.   *)
(* Under SpecText it sets the keys from a text (str), key b after packing  *)
(* into it, and then reads.                                                *)
(***************************************************************************)
EXTENDS Integers, Sequences, FiniteSets, TLC

VARIABLES
  hostBigEndian,  \* byte order of the host the code was built for
  keySize,        \* the template parameter of GenericKey
  schema,         \* the caller's layout: the fields it packs and reads
  str,            \* the text the caller hands to setFromString
  data,           \* data[k]: unsigned char data[key_size_byte] of key k
  packed,         \* packed[k][i]: the word last packed into field i of k
  origin,         \* origin[k]: how the contents of key k came about
  ret             \* the last call and what it returned

vars == <<hostBigEndian, keySize, schema, str, data, packed, origin, ret>>

\* keySize of the packing scenarios, largest keySize of the text scenarios.
PackSlots == 1
TextSlots == 3
\* Longest text drawn from Alphabet.
MaxStrLen == 3

KeyNames == {"a", "b"}
Widths == {1, 2, 4, 8}
Byte == 0..255

key_size_byte(n) == n * 8

(***************************************************************************)
(* Words and bytes.                                                        *)
(***************************************************************************)
Zero(w) == [i \in 1..w |-> 0]
One(w) == [i \in 1..w |-> IF i = w THEN 1 ELSE 0]
AllOnes(w) == [i \in 1..w |-> 255]
NoWord == <<>>

Reverse(s) == [i \in 1..Len(s) |-> s[Len(s) + 1 - i]]

RECURSIVE XorBits(_, _, _)
XorBits(a, b, n) ==
  IF n = 0 THEN 0
  ELSE (((a % 2) + (b % 2)) % 2) + 2 * XorBits(a \div 2, b \div 2, n - 1)

\* operator ^ on two integers of the same width
Xor(a, b) == [i \in 1..Len(a) |-> XorBits(a[i], b[i], 8)]

\* digit i of v, zero past the least significant one
Digit(v, i) == IF i \in 1..Len(v) THEN v[i] ELSE 0

\* operator << by n bits, the bits shifted out of the width dropped
ShiftLeft(v, n) ==
  LET q == n \div 8
      r == n % 8
  IN  [i \in 1..Len(v) |->
         ((Digit(v, i + q) * (2 ^ r)) % 256) + (Digit(v, i + q + 1) \div (2 ^ (8 - r)))]

\* static_cast<IntType>(0x1) << (sizeof(IntType) * 8UL - 1)
SignMask[w \in Widths] == ShiftLeft(One(w), w * 8 - 1)

\* no flip at all
SignFlipIdentity(w, v) == v

SignFlip(w, v) == Xor(v, SignMask[w])

(***************************************************************************)
(* Integers in memory and the byte order conversions.                      *)
(***************************************************************************)
\* the bytes of an integer object, lowest address first
ObjectBytes(v) == IF hostBigEndian THEN v ELSE Reverse(v)

\* the integer whose object has these bytes: *reinterpret_cast<IntType *>(p)
LoadInteger(bytes) == IF hostBigEndian THEN bytes ELSE Reverse(bytes)

\* htobe16, htobe32, htobe64
HostToBigEndian(v) == IF hostBigEndian THEN v ELSE Reverse(v)

\* be16toh, be32toh, be64toh
BigEndianToHost(v) == IF hostBigEndian THEN v ELSE Reverse(v)

TwoBytesToBigEndian(v) == HostToBigEndian(v)
FourBytesToBigEndian(v) == HostToBigEndian(v)
EightBytesToBigEndian(v) == HostToBigEndian(v)
TwoBytesToHostEndian(v) == BigEndianToHost(v)
FourBytesToHostEndian(v) == BigEndianToHost(v)
EightBytesToHostEndian(v) == BigEndianToHost(v)

\* the overloads of ToBigEndian, chosen by the width of the argument; the
\* static_cast to the unsigned type keeps the bit pattern
ToBigEndian(w, v) ==
  CASE w = 1 -> v
    [] w = 2 -> TwoBytesToBigEndian(v)
    [] w = 4 -> FourBytesToBigEndian(v)
    [] w = 8 -> EightBytesToBigEndian(v)

\* no conversion back to the host's byte order
ToHostEndianNoSwap(w, v) == v

ToHostEndian(w, v) ==
  CASE w = 1 -> v
    [] w = 2 -> TwoBytesToHostEndian(v)
    [] w = 4 -> FourBytesToHostEndian(v)
    [] w = 8 -> EightBytesToHostEndian(v)

\* memcpy(dst + offset, src, Len(bytes))
Memcpy(dst, offset, bytes) ==
  [i \in 1..Len(dst) |->
     IF offset < i /\ i <= offset + Len(bytes) THEN bytes[i - offset]
     ELSE dst[i]]

\* memcpy of a whole 8-byte word whatever the field's width, cut at the
\* end of the buffer
MemcpyEightBytes(dst, offset, bytes) ==
  [i \in 1..Len(dst) |->
     IF offset < i /\ i <= offset + 8
     THEN (IF i - offset <= Len(bytes) THEN bytes[i - offset] ELSE 0)
     ELSE dst[i]]

\* the w bytes at data + offset
BytesAt(buf, offset, w) == [i \in 1..w |-> buf[offset + i]]

\* memcmp(a, b, n): the difference of the first two bytes that differ
Memcmp(a, b, n) ==
  LET differ == {i \in 1..n : a[i] # b[i]}
  IN  IF differ = {} THEN 0
      ELSE LET first == CHOOSE i \in differ : \A j \in differ : i <= j
           IN  a[first] - b[first]

(***************************************************************************)
(* GenericKey.                                                             *)
(***************************************************************************)
ZeroOut(buf) == [i \in 1..Len(buf) |-> 0]

AddInteger(buf, w, v, offset) ==
  LET sign_flipped == SignFlip(w, v)
      big_endian == ToBigEndian(w, sign_flipped)
  IN  Memcpy(buf, offset, ObjectBytes(big_endian))

\* memcpy of sizeof(uint64_t) bytes instead of sizeof(IntType)
AddUnsignedIntegerEightBytes(buf, w, v, offset) ==
  MemcpyEightBytes(buf, offset, ObjectBytes(ToBigEndian(w, v)))

AddUnsignedInteger(buf, w, v, offset) ==
  LET big_endian == ToBigEndian(w, v)
  IN  Memcpy(buf, offset, ObjectBytes(big_endian))

\* GetInteger without the SignFlip of what it read
GetIntegerNoFlip(buf, w, offset) ==
  ToHostEndian(w, LoadInteger(BytesAt(buf, offset, w)))

GetInteger(buf, w, offset) ==
  LET host_endian == ToHostEndian(w, LoadInteger(BytesAt(buf, offset, w)))
  IN  SignFlip(w, host_endian)

GetUnsignedInteger(buf, w, offset) ==
  LET host_endian == ToHostEndian(w, LoadInteger(BytesAt(buf, offset, w)))
  IN  host_endian

\* memcmp over keySize bytes instead of key_size_byte
CompareKeySizeBytes(a, b) == Memcmp(a, b, keySize)

Compare(a, b) == Memcmp(a, b, key_size_byte(keySize))
LessThan(a, b) == Compare(a, b) < 0
Equals(a, b) == Compare(a, b) = 0

OperatorLess(this, other) ==
  Memcmp(this, other, key_size_byte(keySize)) < 0
OperatorGreater(this, other) ==
  Memcmp(this, other, key_size_byte(keySize)) > 0
OperatorEqual(this, other) ==
  Memcmp(this, other, key_size_byte(keySize)) = 0
OperatorNotEqual(this, other) == ~OperatorEqual(this, other)
\* operator<= written as its own byte comparison, with < for <=
OperatorLessEqualStrict(this, other) ==
  Memcmp(this, other, key_size_byte(keySize)) < 0

OperatorLessEqual(this, other) == ~OperatorGreater(this, other)
OperatorGreaterEqual(this, other) == ~OperatorLess(this, other)

GenericComparator(lhs, rhs) == LessThan(lhs, rhs)
GenericEqualityChecker(lhs, rhs) == Equals(lhs, rhs)

\* a hash of the address of the key
GenericHasherByAddress(lhs) == IF lhs = "a" THEN 1 ELSE 2

\* lhs is the key handed over by reference; the body never reads it
GenericHasher(lhs) == 0

(***************************************************************************)
(* The caller: the layouts it uses and the values it packs.                *)
(***************************************************************************)
Field(s, w, o) == [signed |-> s, width |-> w, offset |-> o]

\* one field of any type at any offset that keeps it inside the buffer
SingleFieldSchemas(n) ==
  {<<Field(s, w, o)>> : s \in BOOLEAN, w \in Widths,
                        o \in 0..(key_size_byte(n) - 1)}

\* two fields of any two types, one right after the other from offset 0
TwoFieldSchemas(n) ==
  {<<Field(s1, w1, 0), Field(s2, w2, w1)>> :
     s1 \in BOOLEAN, w1 \in Widths, s2 \in BOOLEAN, w2 \in Widths}

\* int16_t at 0, uint8_t at 2, a byte never written, int32_t at 4
ThreeFieldSchema == <<Field(TRUE, 2, 0), Field(FALSE, 1, 2), Field(TRUE, 4, 4)>>

InBounds(sch, n) ==
  \A i \in 1..Len(sch) : sch[i].offset + sch[i].width <= key_size_byte(n)

Schemas(n) ==
  {sch \in SingleFieldSchemas(n) \cup TwoFieldSchemas(n) \cup {ThreeFieldSchema} :
     InBounds(sch, n)}

\* the layout setFromString fills: keySize slots of uint64_t
SlotSchema(n) == [i \in 1..n |-> Field(FALSE, 8, (i - 1) * 8)]

\* 0, 1, the smallest and the largest signed value, all bits set (-1, or the
\* largest unsigned value), and a word whose bytes all differ
TestWords(w) ==
  {Zero(w), One(w), AllOnes(w),
   [i \in 1..w |-> IF i = 1 THEN 128 ELSE 0],
   [i \in 1..w |-> IF i = 1 THEN 127 ELSE 255],
   [i \in 1..w |-> i]}

\* 1 and the smallest signed value, which is 2^(8w-1) when unsigned
FewWords(w) == {One(w), [i \in 1..w |-> IF i = 1 THEN 128 ELSE 0]}

NoString == <<"none">>

\* the values the caller packs into field i
FieldWords(i) ==
  IF str # NoString THEN {AllOnes(schema[i].width)}
  ELSE IF Len(schema) = 1 THEN TestWords(schema[i].width)
  ELSE FewWords(schema[i].width)

Fields == 1..Len(schema)

Call(op, lhs, rhs, field, word, num, flag) ==
  [op |-> op, lhs |-> lhs, rhs |-> rhs, field |-> field, word |-> word,
   num |-> num, flag |-> flag, exc |-> "none"]

NoCall == Call("none", "-", "-", 0, NoWord, 0, FALSE)

InitKeys ==
  /\ data = [k \in KeyNames |-> ZeroOut([i \in 1..key_size_byte(keySize) |-> 0])]
  /\ packed = [k \in KeyNames |-> [i \in 1..Len(schema) |-> NoWord]]
  /\ origin = [k \in KeyNames |-> "fresh"]
  /\ ret = NoCall

Init ==
  /\ hostBigEndian \in BOOLEAN
  /\ keySize = PackSlots
  /\ schema \in Schemas(keySize)
  /\ str = NoString
  /\ InitKeys

Setup == <<hostBigEndian, keySize, schema, str>>

\* The caller fills key a from its lowest field up and key b from its highest
\* field down, and may pack again the field it packed last.
NextField(k, i) ==
  IF k = "a"
  THEN /\ \A j \in Fields : j < i => packed[k][j] # NoWord
       /\ \A j \in Fields : j > i => packed[k][j] = NoWord
  ELSE /\ \A j \in Fields : j > i => packed[k][j] # NoWord
       /\ \A j \in Fields : j < i => packed[k][j] = NoWord

DoAddInteger(k, i, v) ==
  /\ schema[i].signed
  /\ NextField(k, i)
  /\ data' = [data EXCEPT
                ![k] = AddInteger(@, schema[i].width, v, schema[i].offset)]
  /\ packed' = [packed EXCEPT ![k][i] = v]
  /\ origin' = [origin EXCEPT ![k] = "packed"]
  /\ ret' = Call("AddInteger", k, "-", i, v, 0, FALSE)
  /\ UNCHANGED Setup

DoAddUnsignedInteger(k, i, v) ==
  /\ ~schema[i].signed
  /\ NextField(k, i)
  /\ data' = [data EXCEPT
                ![k] = AddUnsignedInteger(@, schema[i].width, v, schema[i].offset)]
  /\ packed' = [packed EXCEPT ![k][i] = v]
  /\ origin' = [origin EXCEPT ![k] = "packed"]
  /\ ret' = Call("AddUnsignedInteger", k, "-", i, v, 0, FALSE)
  /\ UNCHANGED Setup

DoGetInteger(k, i) ==
  /\ schema[i].signed
  /\ ret' = Call("GetInteger", k, "-", i,
                 GetInteger(data[k], schema[i].width, schema[i].offset), 0, FALSE)
  /\ UNCHANGED <<Setup, data, packed, origin>>

DoGetUnsignedInteger(k, i) ==
  /\ ~schema[i].signed
  /\ ret' = Call("GetUnsignedInteger", k, "-", i,
                 GetUnsignedInteger(data[k], schema[i].width, schema[i].offset),
                 0, FALSE)
  /\ UNCHANGED <<Setup, data, packed, origin>>

DoCompare(x, y) ==
  /\ ret' = Call("Compare", x, y, 0, NoWord, Compare(data[x], data[y]), FALSE)
  /\ UNCHANGED <<Setup, data, packed, origin>>

\* a call that returns bool
BoolCall(op, x, y, b) ==
  /\ ret' = Call(op, x, y, 0, NoWord, 0, b)
  /\ UNCHANGED <<Setup, data, packed, origin>>

DoLessThan(x, y) == BoolCall("LessThan", x, y, LessThan(data[x], data[y]))
DoEquals(x, y) == BoolCall("Equals", x, y, Equals(data[x], data[y]))
DoOperatorLess(x, y) == BoolCall("<", x, y, OperatorLess(data[x], data[y]))
DoOperatorGreater(x, y) == BoolCall(">", x, y, OperatorGreater(data[x], data[y]))
DoOperatorEqual(x, y) == BoolCall("==", x, y, OperatorEqual(data[x], data[y]))
DoOperatorNotEqual(x, y) ==
  BoolCall("!=", x, y, OperatorNotEqual(data[x], data[y]))
DoOperatorLessEqual(x, y) ==
  BoolCall("<=", x, y, OperatorLessEqual(data[x], data[y]))
DoOperatorGreaterEqual(x, y) ==
  BoolCall(">=", x, y, OperatorGreaterEqual(data[x], data[y]))
DoGenericComparator(x, y) ==
  BoolCall("GenericComparator", x, y, GenericComparator(data[x], data[y]))
DoGenericEqualityChecker(x, y) ==
  BoolCall("GenericEqualityChecker", x, y,
           GenericEqualityChecker(data[x], data[y]))

DoGenericHasher(k) ==
  /\ ret' = Call("GenericHasher", k, "-", 0, NoWord, GenericHasher(k), FALSE)
  /\ UNCHANGED <<Setup, data, packed, origin>>

\* the pairs of keys the caller compares
KeyPairs == {<<"a", "b">>}

\* A behaviour is one use of the keys: the caller builds them and then makes
\* one call that reads them.
Building == ret.op \in {"none", "AddInteger", "AddUnsignedInteger", "setFromString"}

Pack ==
  \E k \in KeyNames, i \in Fields : \E v \in FieldWords(i) :
    \/ Building /\ DoAddInteger(k, i, v)
    \/ Building /\ DoAddUnsignedInteger(k, i, v)

Unpack ==
  \E k \in KeyNames, i \in Fields :
    \/ Building /\ DoGetInteger(k, i)
    \/ Building /\ DoGetUnsignedInteger(k, i)

Order ==
  \E p \in KeyPairs :
    \/ Building /\ DoCompare(p[1], p[2])
    \/ Building /\ DoLessThan(p[1], p[2])
    \/ Building /\ DoEquals(p[1], p[2])
    \/ Building /\ DoGenericComparator(p[1], p[2])
    \/ Building /\ DoGenericEqualityChecker(p[1], p[2])

Operators ==
  \E p \in KeyPairs :
    \/ Building /\ DoOperatorLess(p[1], p[2])
    \/ Building /\ DoOperatorGreater(p[1], p[2])
    \/ Building /\ DoOperatorEqual(p[1], p[2])
    \/ Building /\ DoOperatorNotEqual(p[1], p[2])
    \/ Building /\ DoOperatorLessEqual(p[1], p[2])
    \/ Building /\ DoOperatorGreaterEqual(p[1], p[2])

Hash == \E k \in KeyNames : Building /\ DoGenericHasher(k)

Next == Pack \/ Unpack \/ Order \/ Operators \/ Hash

Spec == Init /\ [][Next]_vars

(***************************************************************************)
(* setFromString: std::getline, std::stoul and the loop over the tokens.   *)
(* A string is the sequence of its characters.  unsigned long has 8 bytes, *)
(* as on the LP64 hosts the code is built for.                             *)
(***************************************************************************)
Digits == {"0", "1", "2", "3", "4", "5", "6", "7", "8", "9"}

DigitValue(c) ==
  CASE c = "0" -> 0 [] c = "1" -> 1 [] c = "2" -> 2 [] c = "3" -> 3
    [] c = "4" -> 4 [] c = "5" -> 5 [] c = "6" -> 6 [] c = "7" -> 7
    [] c = "8" -> 8 [] c = "9" -> 9

\* v * 10 + carry over the digits 1..i of v: the carry out, then the digits
RECURSIVE TimesTenPlus(_, _, _)
TimesTenPlus(v, i, carry) ==
  IF i = 0 THEN <<carry>>
  ELSE LET t == v[i] * 10 + carry
       IN  Append(TimesTenPlus(v, i - 1, t \div 256), t % 256)

\* the digits of chars from pos on, accumulated into acc; over is set once
\* the number no longer fits unsigned long; next is where the digits end
RECURSIVE Accumulate(_, _, _, _)
Accumulate(chars, pos, acc, over) ==
  IF pos > Len(chars) \/ chars[pos] \notin Digits
  THEN [value |-> acc, over |-> over, next |-> pos]
  ELSE LET r == TimesTenPlus(acc, Len(acc), DigitValue(chars[pos]))
       IN  Accumulate(chars, pos + 1, Tail(r), over \/ Head(r) # 0)

\* v + 1 over the digits 1..i of v, the carry out of the width dropped
RECURSIVE PlusOne(_, _)
PlusOne(v, i) ==
  IF i = 0 THEN <<>>
  ELSE IF v[i] = 255 THEN Append(PlusOne(v, i - 1), 0)
  ELSE Append(SubSeq(v, 1, i - 1), v[i] + 1)

\* unary minus on an unsigned long
Negate(v) == PlusOne(Xor(v, AllOnes(Len(v))), Len(v))

RECURSIVE SkipSpace(_, _)
SkipSpace(chars, pos) ==
  IF pos <= Len(chars) /\ chars[pos] = " " THEN SkipSpace(chars, pos + 1) ELSE pos

\* std::stoul(chars), base 10: strtoul skips white space, takes a sign, then
\* the longest run of digits and ignores what follows it; no digit at all is
\* std::invalid_argument, a number past ULONG_MAX is std::out_of_range
Stoul(chars) ==
  LET start == SkipSpace(chars, 1)
      signed == start <= Len(chars) /\ chars[start] \in {"+", "-"}
      first == IF signed THEN start + 1 ELSE start
      r == Accumulate(chars, first, Zero(8), FALSE)
  IN  IF r.next = first THEN [value |-> Zero(8), exc |-> "invalid_argument"]
      ELSE IF r.over THEN [value |-> AllOnes(8), exc |-> "out_of_range"]
      ELSE IF signed /\ chars[start] = "-"
           THEN [value |-> Negate(r.value), exc |-> "none"]
      ELSE [value |-> r.value, exc |-> "none"]

\* where the token that starts at pos ends: the next ',' or the end
RECURSIVE TokenEnd(_, _)
TokenEnd(chars, pos) ==
  IF pos > Len(chars) \/ chars[pos] = "," THEN pos ELSE TokenEnd(chars, pos + 1)

\* the loop with "if (++i > keySize) break"
RECURSIVE ReadTokensOneMore(_, _, _, _)
ReadTokensOneMore(buf, chars, pos, i) ==
  IF pos > Len(chars)
  THEN [data |-> buf, count |-> i, exc |-> "none"]
  ELSE LET end == TokenEnd(chars, pos)
           r == Stoul(SubSeq(chars, pos, end - 1))
       IN  IF r.exc # "none"
           THEN [data |-> buf, count |-> i, exc |-> r.exc]
           ELSE LET filled == AddUnsignedInteger(buf, 8, r.value, i * 8)
                IN  IF i + 1 > keySize
                    THEN [data |-> filled, count |-> i + 1, exc |-> "none"]
                    ELSE ReadTokensOneMore(filled, chars, end + 1, i + 1)

\* the loop with the exception of stoul caught and the token skipped
RECURSIVE ReadTokensCatching(_, _, _, _)
ReadTokensCatching(buf, chars, pos, i) ==
  IF pos > Len(chars)
  THEN [data |-> buf, count |-> i, exc |-> "none"]
  ELSE LET end == TokenEnd(chars, pos)
           r == Stoul(SubSeq(chars, pos, end - 1))
       IN  IF r.exc # "none"
           THEN ReadTokensCatching(buf, chars, end + 1, i)
           ELSE LET filled == AddUnsignedInteger(buf, 8, r.value, i * 8)
                IN  IF i + 1 >= keySize
                    THEN [data |-> filled, count |-> i + 1, exc |-> "none"]
                    ELSE ReadTokensCatching(filled, chars, end + 1, i + 1)

\* the while loop of setFromString with the stream at pos and i slots
\* filled: the buffer it leaves, the slots it filled and the exception that
\* ended it, if one did
RECURSIVE ReadTokens(_, _, _, _)
ReadTokens(buf, chars, pos, i) ==
  IF pos > Len(chars)
  THEN [data |-> buf, count |-> i, exc |-> "none"]
  ELSE LET end == TokenEnd(chars, pos)
           temp == SubSeq(chars, pos, end - 1)
           r == Stoul(temp)
       IN  IF r.exc # "none"
           THEN [data |-> buf, count |-> i, exc |-> r.exc]
           ELSE LET filled == AddUnsignedInteger(buf, 8, r.value, i * 8)
                IN  IF i + 1 >= keySize
                    THEN [data |-> filled, count |-> i + 1, exc |-> "none"]
                    ELSE ReadTokens(filled, chars, end + 1, i + 1)

\* setFromString without its ZeroOut()
setFromStringKeepsData(buf, key) == ReadTokens(buf, key, 1, 0)

setFromString(buf, key) == ReadTokens(ZeroOut(buf), key, 1, 0)

Alphabet == {"1", "2", ",", "x"}

RECURSIVE StringsOfLength(_)
StringsOfLength(n) ==
  IF n = 0 THEN {<<>>}
  ELSE {Append(t, c) : t \in StringsOfLength(n - 1), c \in Alphabet}

\* lists that reach and pass the capacity, the largest unsigned long and the
\* number after it, signs, white space, text after a number
SpecialStrings ==
  {<<"1", ",", "2", ",", "3">>,
   <<"1", ",", "2", ",", "3", ",", "4", ",", "5">>,
   <<"2", ",", "1", ",", "x">>,
   <<"2", "5", "6", ",", "6", "5", "5", "3", "6">>,
   <<"1", "8", "4", "4", "6", "7", "4", "4", "0", "7", "3", "7", "0", "9", "5", "5", "1", "6", "1", "5">>,
   <<"1", "8", "4", "4", "6", "7", "4", "4", "0", "7", "3", "7", "0", "9", "5", "5", "1", "6", "1", "6">>,
   <<"-", "1">>,
   <<"-", "1", "8", "4", "4", "6", "7", "4", "4", "0", "7", "3", "7", "0", "9", "5", "5", "1", "6", "1", "6">>,
   <<" ", "7">>,
   <<"+", "5">>,
   <<"-", " ", "1">>,
   <<" ">>,
   <<"1", "2", "x", ",", "3">>,
   <<"0", "0", "7">>,
   <<"1", ",", ",", "2">>,
   <<"+">>,
   <<"1", ",", "-", "x">>}

Strings == UNION {StringsOfLength(n) : n \in 0..MaxStrLen} \cup SpecialStrings

InitText ==
  /\ hostBigEndian \in BOOLEAN
  /\ keySize \in 1..TextSlots
  /\ schema = SlotSchema(keySize)
  /\ str \in Strings
  /\ InitKeys

DoSetFromString(k) ==
  LET r == setFromString(data[k], str)
  IN  /\ data' = [data EXCEPT ![k] = r.data]
      /\ packed' = [packed EXCEPT ![k] = [i \in Fields |-> NoWord]]
      /\ origin' = [origin EXCEPT ![k] = IF r.exc = "none" THEN "text" ELSE "failed"]
      /\ ret' = [Call("setFromString", k, "-", 0, NoWord, r.count,
                      data[k] = ZeroOut(data[k]))
                   EXCEPT !.exc = r.exc]
      /\ UNCHANGED Setup

\* key b is packed before it is set from the text, key a is set fresh
Dirty ==
  \E i \in Fields : \E v \in FieldWords(i) :
    /\ Building
    /\ origin["b"] \in {"fresh", "packed"}
    /\ DoAddUnsignedInteger("b", i, v)

SetText == \E k \in KeyNames : Building /\ DoSetFromString(k)

ReadSlot == \E k \in KeyNames, i \in Fields : Building /\ DoGetUnsignedInteger(k, i)

CompareKeys ==
  \E p \in KeyPairs :
    \/ Building /\ DoCompare(p[1], p[2])
    \/ Building /\ DoEquals(p[1], p[2])

NextText == Dirty \/ SetText \/ ReadSlot \/ CompareKeys

SpecText == InitText /\ [][NextText]_vars

(***************************************************************************)
(* The values of words, for the properties.                                *)
(***************************************************************************)
\* the digits of the number a word of the given signedness stands for: the
\* top digit of a signed word counts from -128 to 127
NumDigits(signed, v) ==
  [i \in 1..Len(v) |-> IF i = 1 /\ signed /\ v[1] >= 128 THEN v[1] - 256 ELSE v[i]]

\* a < b as numbers
NumLess(signed, a, b) ==
  LET x == NumDigits(signed, a)
      y == NumDigits(signed, b)
  IN  \E i \in 1..Len(x) : x[i] < y[i] /\ \A j \in 1..(i - 1) : x[j] = y[j]

\* the smallest value of a signed type of w bytes: -2^(8w-1)
SignedMin(w) == [i \in 1..w |-> IF i = 1 THEN 128 ELSE 0]

Sign(n) == IF n < 0 THEN -1 ELSE IF n > 0 THEN 1 ELSE 0

RECURSIVE FieldwiseFrom(_, _, _)
FieldwiseFrom(p, q, i) ==
  IF i > Len(schema) THEN 0
  ELSE IF NumLess(schema[i].signed, p[i], q[i]) THEN -1
  ELSE IF NumLess(schema[i].signed, q[i], p[i]) THEN 1
  ELSE FieldwiseFrom(p, q, i + 1)

\* the tuples p and q compared field by field, the first field dominant
Fieldwise(p, q) == FieldwiseFrom(p, q, 1)

Filled(k) == \A i \in Fields : packed[k][i] # NoWord
Unpacking == ret.op \in {"GetInteger", "GetUnsignedInteger"}

\* C1: a GetInteger or GetUnsignedInteger of a field returns the word that
\* AddInteger or AddUnsignedInteger last packed into that field, for every
\* width, signedness, offset and value.
C1_RoundTrip ==
  (Unpacking /\ packed[ret.lhs][ret.field] # NoWord)
    => ret.word = packed[ret.lhs][ret.field]

\* -2^31 packed as int32_t at the odd offset 3 and read back
C1_Witness ==
  /\ ret.op = "GetInteger"
  /\ schema[ret.field] = Field(TRUE, 4, 3)
  /\ packed[ret.lhs][ret.field] = SignedMin(4)
  /\ ret.word = SignedMin(4)

\* C2: when two filled keys differ in at most one field i, Compare of the
\* keys is negative exactly when the value of field i in the first is less
\* than its value in the second.
C2_OrderPreserved ==
  (ret.op = "Compare" /\ Filled(ret.lhs) /\ Filled(ret.rhs))
    => \A i \in Fields :
         (\A j \in Fields \ {i} : packed[ret.lhs][j] = packed[ret.rhs][j])
           => (NumLess(schema[i].signed, packed[ret.lhs][i], packed[ret.rhs][i])
                 <=> ret.num < 0)

\* int64_t -1 against 1: across the zero crossing
C2_Witness ==
  /\ ret.op = "Compare"
  /\ schema = <<Field(TRUE, 8, 0)>>
  /\ packed[ret.lhs][1] = AllOnes(8)
  /\ packed[ret.rhs][1] = One(8)
  /\ ret.num < 0

\* C3: for two keys filled by the same layout of several fields, the sign
\* of Compare is the result of comparing the packed tuples field by field,
\* the field at the lowest offset dominant.
C3_CompositeOrder ==
  (ret.op = "Compare" /\ Len(schema) >= 2 /\ Filled(ret.lhs) /\ Filled(ret.rhs))
    => Sign(ret.num) = Fieldwise(packed[ret.lhs], packed[ret.rhs])

\* three fields, the first two equal, the third deciding: 1 against -2^31
C3_Witness ==
  /\ ret.op = "Compare"
  /\ schema = ThreeFieldSchema
  /\ Filled(ret.lhs) /\ Filled(ret.rhs)
  /\ packed[ret.lhs][1] = packed[ret.rhs][1]
  /\ packed[ret.lhs][2] = packed[ret.rhs][2]
  /\ packed[ret.lhs][3] = One(4)
  /\ packed[ret.rhs][3] = SignedMin(4)
  /\ ret.num > 0

\* C4 as claimed: every slot of a freshly constructed key decodes as zero,
\* by GetInteger and by GetUnsignedInteger.
C4_ZeroKeyDecodesZero ==
  (Unpacking /\ origin[ret.lhs] = "fresh")
    => ret.word = Zero(schema[ret.field].width)

\* C4 amended: every slot of a freshly constructed key decodes as zero by
\* GetUnsignedInteger and as the smallest value of the type by GetInteger.
C4_ZeroKeyDecodes ==
  (Unpacking /\ origin[ret.lhs] = "fresh")
    => ret.word = (IF ret.op = "GetInteger"
                   THEN SignedMin(schema[ret.field].width)
                   ELSE Zero(schema[ret.field].width))

\* int16_t read at offset 5 of a fresh key
C4_Witness ==
  /\ ret.op = "GetInteger"
  /\ origin[ret.lhs] = "fresh"
  /\ schema[ret.field] = Field(TRUE, 2, 5)
  /\ ret.word = SignedMin(2)

\* C5: of <, == and > exactly one holds for every pair of keys, and !=, <=
\* and >= are the negations of ==, > and <.
C5_OperatorsConsistent ==
  \A x \in KeyNames, y \in KeyNames :
    LET lt == OperatorLess(data[x], data[y])
        eq == OperatorEqual(data[x], data[y])
        gt == OperatorGreater(data[x], data[y])
    IN  /\ (lt /\ ~eq /\ ~gt) \/ (~lt /\ eq /\ ~gt) \/ (~lt /\ ~eq /\ gt)
        /\ OperatorNotEqual(data[x], data[y]) = ~eq
        /\ OperatorLessEqual(data[x], data[y]) = ~gt
        /\ OperatorGreaterEqual(data[x], data[y]) = ~lt

\* a <= b has answered true for two keys that differ
C5_Witness ==
  /\ ret.op = "<="
  /\ ret.flag
  /\ data[ret.lhs] # data[ret.rhs]
  /\ Filled(ret.lhs) /\ Filled(ret.rhs)

\* C7: keys for which Equals holds have the same GenericHasher value.
C7_HashContract ==
  \A x \in KeyNames, y \in KeyNames :
    Equals(data[x], data[y]) => GenericHasher(x) = GenericHasher(y)

\* the hash of one of two equal keys, both packed, has been taken
C7_Witness ==
  /\ ret.op = "GenericHasher"
  /\ Equals(data["a"], data["b"])
  /\ origin["a"] = "packed" /\ origin["b"] = "packed"
  /\ ret.num = GenericHasher("b")

FieldBytes(i) == (schema[i].offset + 1)..(schema[i].offset + schema[i].width)

\* C9: a step that packs field i of key k changes no byte but those of
\* field i of k, a step that reads changes no byte at all, and every field
\* packed so far decodes to the word last packed into it.
C9_Frame ==
  [][/\ \A k \in KeyNames : \A j \in 1..Len(data[k]) :
          data'[k][j] # data[k][j]
            => (ret'.op \in {"AddInteger", "AddUnsignedInteger"}
                  /\ k = ret'.lhs /\ j \in FieldBytes(ret'.field))
     /\ \A k \in KeyNames : \A i \in Fields :
          packed'[k][i] # NoWord
            => packed'[k][i] =
                 (IF schema[i].signed
                  THEN GetInteger(data'[k], schema[i].width, schema[i].offset)
                  ELSE GetUnsignedInteger(data'[k], schema[i].width,
                                          schema[i].offset))]_vars

\* the first field of key b packed after its second
C9_Witness ==
  /\ ret.op = "AddUnsignedInteger"
  /\ ret.lhs = "b"
  /\ ret.field = 1
  /\ Len(schema) = 2
  /\ schema[1].width = 2
  /\ packed["b"][2] = One(schema[2].width)

(***************************************************************************)
(* The tokens of a text, for the properties.                               *)
(***************************************************************************)
RECURSIVE SplitFrom(_, _, _)
SplitFrom(chars, pos, piece) ==
  IF pos > Len(chars) THEN <<piece>>
  ELSE IF chars[pos] = "," THEN <<piece>> \o SplitFrom(chars, pos + 1, <<>>)
  ELSE SplitFrom(chars, pos + 1, Append(piece, chars[pos]))

\* the pieces between the commas; what follows the last comma is a token
\* only when it is not empty
Tokens(chars) ==
  LET pieces == SplitFrom(chars, 1, <<>>)
  IN  IF pieces[Len(pieces)] = <<>> THEN SubSeq(pieces, 1, Len(pieces) - 1)
      ELSE pieces

\* the tokens setFromString consumes: the first keySize
Consumed ==
  LET toks == Tokens(str)
  IN  SubSeq(toks, 1, IF Len(toks) < keySize THEN Len(toks) ELSE keySize)

\* decimal digits and nothing else
IsNumeral(tok) == tok # <<>> /\ \A i \in 1..Len(tok) : tok[i] \in Digits

\* a numeral, after white space and a sign if any, and nothing else
IsNumericToken(tok) ==
  \E p \in 1..Len(tok) :
    /\ \A j \in p..Len(tok) : tok[j] \in Digits
    /\ \A j \in 1..(p - 1) : tok[j] = " " \/ (j = p - 1 /\ tok[j] \in {"+", "-"})

\* where the digits start when the token starts, after white space and a
\* sign if any, with a digit; 0 when it does not
DigitsStart(tok) ==
  LET ps == {p \in 1..Len(tok) :
               /\ tok[p] \in Digits
               /\ \A j \in 1..(p - 1) :
                    tok[j] = " " \/ (j = p - 1 /\ tok[j] \in {"+", "-"})}
  IN  IF ps = {} THEN 0 ELSE CHOOSE p \in ps : \A q \in ps : p <= q

\* the number the digits from pos on stand for, and whether it passes 2^64-1
NumberAt(tok, pos) == Accumulate(tok, pos, Zero(8), FALSE)

\* the parse failure a token raises, "none" when it raises none
Failure(tok) ==
  IF DigitsStart(tok) = 0 THEN "invalid_argument"
  ELSE IF NumberAt(tok, DigitsStart(tok)).over THEN "out_of_range"
  ELSE "none"

\* C6: when the tokens setFromString consumes are numerals that fit 64 bits,
\* it ends normally having filled min(n, keySize) slots, and slot i then
\* decodes, as uint64_t, to the i-th numeral.
C6_TextFillsSlots ==
  (\A i \in 1..Len(Consumed) :
     IsNumeral(Consumed[i]) /\ ~NumberAt(Consumed[i], 1).over)
    => /\ ret.op = "setFromString"
            => (ret.exc = "none" /\ ret.num = Len(Consumed))
       /\ (ret.op = "GetUnsignedInteger" /\ origin[ret.lhs] = "text"
             /\ ret.field <= Len(Consumed))
            => ret.word = NumberAt(Consumed[ret.field], 1).value

\* "1,2,3" in a key of 3 slots: the third slot read as 3
C6_Witness ==
  /\ str = <<"1", ",", "2", ",", "3">>
  /\ keySize = 3
  /\ ret.op = "GetUnsignedInteger"
  /\ origin[ret.lhs] = "text"
  /\ ret.field = 3
  /\ ret.word = <<0, 0, 0, 0, 0, 0, 0, 3>>

\* C8 as claimed: setFromString ends with a parse failure whenever a token
\* it consumes is not a numeral (white space and a sign before it allowed).
C8_NonNumericTokenFails ==
  (ret.op = "setFromString"
     /\ \E i \in 1..Len(Consumed) : ~IsNumericToken(Consumed[i]))
    => ret.exc # "none"

\* C8 amended: setFromString ends with the failure of the first token it
\* consumes that has no digit after its white space and sign or whose
\* number passes 2^64-1, having filled the slots of the tokens before it;
\* it ends normally when there is no such token, whatever follows the
\* digits of a token.
C8_ParseFailure ==
  ret.op = "setFromString"
    => LET bad == {i \in 1..Len(Consumed) : Failure(Consumed[i]) # "none"}
           first == CHOOSE i \in bad : \A j \in bad : i <= j
       IN  IF bad = {} THEN ret.exc = "none"
           ELSE ret.exc = Failure(Consumed[first]) /\ ret.num = first - 1

\* "2,1,x" in a key of 3 slots: std::invalid_argument at the third token
C8_Witness ==
  /\ str = <<"2", ",", "1", ",", "x">>
  /\ keySize = 3
  /\ ret.op = "setFromString"
  /\ ret.exc = "invalid_argument"
  /\ ret.num = 2

\* C10: a key that setFromString has set holds what a fresh key set from the
\* same text holds, its slots past the tokens consumed are zero, and two
\* keys set from the same text compare equal.
C10_TextDiscardsOld ==
  /\ \A k \in KeyNames :
       origin[k] = "text"
         => /\ data[k] = setFromString(Zero(key_size_byte(keySize)), str).data
            /\ \A i \in (Len(Consumed) + 1)..keySize :
                 BytesAt(data[k], (i - 1) * 8, 8) = Zero(8)
  /\ (origin["a"] = "text" /\ origin["b"] = "text")
       => Compare(data["a"], data["b"]) = 0

\* key b, packed in a slot the text does not reach, set after the fresh a
C10_Witness ==
  /\ str = <<"1">>
  /\ keySize = 3
  /\ ret.op = "setFromString"
  /\ ret.lhs = "b"
  /\ ~ret.flag
  /\ origin["a"] = "text"
  /\ origin["b"] = "text"
  /\ Compare(data["a"], data["b"]) = 0

====
